---- MODULE Spec2Model ----
(***************************************************************************)
(* State machine of the scan orchestration of the Sentinel IDR front end:  *)
(* App (view switch, statistics, history), the Scanner component (queue,   *)
(* startScan, progress interval, toast) and the two calls of the analysis  *)
(* service, analyzeFile and checkKnownVulnerabilities.                     *)
(*                                                                         *)
(* One action is one macrotask of the page: an event handler, a timer      *)
(* callback, or the continuation of startScan after an await, run up to    *)
(* its next await.                                                         *)
(***************************************************************************)
EXTENDS Integers, Sequences, FiniteSets

VARIABLES
    currentView,         \* App: the view rendered; Scanner is mounted iff "SCANNER"
    scanHistory,         \* App: results, newest first
    stats,               \* App: [scanned, threats, health]; health in tenths of a percent
    queue,               \* Scanner: sequence of FileQueueItem
    activeScanId,        \* Scanner: id or Null
    emailNotifications,  \* Scanner: the notifications flag
    scanOptions,         \* Scanner: [scanDepth]
    toastMessage,        \* Scanner: the toast shown, or NoToast
    toastTimers,         \* Scanner: pending setTimeout(.., 5000) callbacks of showNotification
    scans,               \* the startScan invocations in flight (closures, interval, await position,
                         \* the query handed to checkKnownVulnerabilities)
    started,             \* number of startScan invocations that passed the guard
    submitted,           \* number of files handed to processFiles of the mounted Scanner
    apiKey,              \* process.env.API_KEY is set
    last                 \* the last call of startScan or continuation of it: [op, id, outcome, mounted]

vars == <<currentView, scanHistory, stats, queue, activeScanId, emailNotifications,
          scanOptions, toastMessage, toastTimers, scans, started, submitted, apiKey, last>>

appVars == <<currentView, scanHistory, stats>>
scannerVars == <<queue, activeScanId, emailNotifications, scanOptions, toastMessage, toastTimers>>

----------------------------------------------------------------------------
(* Bounds of the model *)

MaxQueue == 2          \* items the queue may hold
MaxTicks == 2          \* interval callbacks per scan
MaxScans == 2          \* startScan invocations that pass the guard
MaxRecords == 10       \* calls of addScanToHistory, when it is called on its own
MaxEnqueued == 3       \* files handed to processFiles, when nothing else is done
MaxLateTicks == 8      \* interval callbacks before the state a late scan is taken up in
MaxSafeRecords == 2000 \* safe results recorded before the state a long session is taken up in

----------------------------------------------------------------------------
(* Values *)

Null == "null"
Ids == {"i1", "i2"}            \* values Math.random().toString(36).substring(7) may take
UnknownId == "zz"              \* an id no item has

MiB == 1024 * 1024
Files == { [name |-> "a.txt", size |-> 2 * MiB],
           [name |-> "b.bin", size |-> 3 * MiB] }

Views == {"DASHBOARD", "SCANNER"}  \* HISTORY and SETTINGS unmount the Scanner as DASHBOARD does
Depths == {"quick", "balanced", "deep"}

IDLE == "IDLE"
SCANNING == "SCANNING"
ANALYZING == "ANALYZING"
COMPLETED == "COMPLETED"
ERROR == "ERROR"

SAFE == "SAFE"
SUSPICIOUS == "SUSPICIOUS"
MALICIOUS == "MALICIOUS"
UNKNOWN == "UNKNOWN"

EtaUndefined == -1             \* eta: undefined
NoResult == [absent |-> TRUE]  \* result: undefined
NoToast == [kind |-> "none", name |-> ""]

\* progress is kept exactly, in units of 1/Scale percent: Scale is a multiple of
\* 20^MaxTicks, so that every (90 - p) * 0.05 of a scan is an integer.
RECURSIVE Pow(_, _)
Pow(b, n) == IF n = 0 THEN 1 ELSE b * Pow(b, n - 1)
Scale == Pow(20, MaxTicks)

----------------------------------------------------------------------------
(* types.ts / Scanner.tsx: items and options *)

Mounted == currentView = "SCANNER"

DefaultOptions == [scanDepth |-> "balanced"]
NoOptions == [scanDepth |-> "none"]    \* analyzeFile not called yet

NewItem(id, file) ==
    [id |-> id, file |-> file, status |-> IDLE, progress |-> 0,
     eta |-> EtaUndefined, result |-> NoResult]

\* queue.find(i => i.id === id): the index of the first match, 0 for undefined
Find(q, id) ==
    IF \E k \in DOMAIN q : q[k].id = id
    THEN CHOOSE k \in DOMAIN q : q[k].id = id /\ \A j \in 1..(k - 1) : q[j].id # id
    ELSE 0

\* (mutant) the update leaves the result of the item as it was
updateItemStatus_KeepsResult(q, id, status, progress, result, eta) ==
    [k \in DOMAIN q |->
        IF q[k].id = id
        THEN [q[k] EXCEPT !.status = status, !.progress = progress, !.eta = eta]
        ELSE q[k]]

\* setQueue(prev => prev.map(item => item.id === id ? {...item, status, progress, result, eta} : item))
updateItemStatus(q, id, status, progress, result, eta) ==
    [k \in DOMAIN q |->
        IF q[k].id = id
        THEN [q[k] EXCEPT !.status = status, !.progress = progress,
                          !.result = result, !.eta = eta]
        ELSE q[k]]

\* setQueue(prev => prev.map(qItem => qItem.id === id ? {...qItem, status: ANALYZING} : qItem))
setAnalyzing(q, id) ==
    [k \in DOMAIN q |-> IF q[k].id = id THEN [q[k] EXCEPT !.status = ANALYZING] ELSE q[k]]

\* setQueue(prev => prev.map(qItem => qItem.id === id ? {...qItem, progress, eta} : qItem))
setProgress(q, id, progress, eta) ==
    [k \in DOMAIN q |->
        IF q[k].id = id THEN [q[k] EXCEPT !.progress = progress, !.eta = eta] ELSE q[k]]

\* startScan, lines 78-83: the estimate in seconds
baseTime(depth) == IF depth = "deep" THEN 45 ELSE IF depth = "quick" THEN 5 ELSE 15
initialEta(file, depth) ==
    IF file.size > 2 * 1024 * 1024 THEN baseTime(depth) * 2 ELSE baseTime(depth)

\* (mutant) the guard without the test of the status
startScanReturnsEarly_NoStatusTest(q, id) ==
    Find(q, id) = 0

\* startScan, line 74: if (!item || item.status === ScanStatus.SCANNING) return;
startScanReturnsEarly(q, id) ==
    Find(q, id) = 0 \/ q[Find(q, id)].status = SCANNING

RemoveAt(seq, i) == SubSeq(seq, 1, i - 1) \o SubSeq(seq, i + 1, Len(seq))

Max(a, b) == IF a >= b THEN a ELSE b

----------------------------------------------------------------------------
(* geminiService.ts: what the two calls hand back *)

NoMatches == [present |-> FALSE, links |-> << >>]
Matches(links) == [present |-> TRUE, links |-> links]

FailedSummary == "Analysis failed due to processing error."

\* the JSON the model may answer under responseSchema (cveMatches is optional in it)
ProviderVerdicts ==
    { [threatLevel |-> SAFE, vulnerabilities |-> << >>, cveMatches |-> NoMatches],
      [threatLevel |-> SAFE, vulnerabilities |-> << >>, cveMatches |-> Matches(<<"u0">>)],
      [threatLevel |-> SUSPICIOUS, vulnerabilities |-> << >>, cveMatches |-> NoMatches],
      [threatLevel |-> MALICIOUS, vulnerabilities |-> <<"v1", "v2">>,
       cveMatches |-> Matches(<<"u0">>)] }

\* analyzeFile, lines 183-193: { ...result, fileName: file.name, ... }
analyzeFileReturn(file, v) ==
    [fileName |-> file.name, threatLevel |-> v.threatLevel, summary |-> "verdict",
     vulnerabilities |-> v.vulnerabilities, cveMatches |-> v.cveMatches]

\* analyzeFile, lines 195-208: the catch block
analyzeFileCatch(file) ==
    [fileName |-> file.name, threatLevel |-> UNKNOWN, summary |-> FailedSummary,
     vulnerabilities |-> << >>, cveMatches |-> Matches(<< >>)]

\* checkKnownVulnerabilities: the links of the grounding chunks; [] from its catch block
LinkLists == { << >>, <<"u1">> }

\* (mutant) the query is always made of the file name
searchQueries_FileNameOnly(result) ==
    result.fileName \o " vulnerabilities"

\* startScan, lines 126-128
searchQueries(result) ==
    IF Len(result.vulnerabilities) > 0
    THEN result.vulnerabilities[1]
    ELSE result.fileName \o " vulnerabilities"

\* startScan, lines 131-133
attachLinks(result, cveLinks) ==
    IF Len(cveLinks) > 0 THEN [result EXCEPT !.cveMatches = Matches(cveLinks)] ELSE result

----------------------------------------------------------------------------
(* App.tsx: addScanToHistory *)

\* (mutant) the health cut to one decimal instead of rounded
ToFixed1_Truncates(num, den) == (10 * num) \div den

\* parseFloat(x.toFixed(1)) of x = num / den, in tenths
ToFixed1(num, den) == (20 * num + den) \div (2 * den)

\* (mutant) only a malicious result counts as a threat
isThreat_OnlyMalicious(result) == result.threatLevel = MALICIOUS

isThreat(result) == result.threatLevel # SAFE

\* (mutant) a safe result clears the count of threats
record_ResetsThreats(prev, result) ==
    LET newScanned == prev.scanned + 1
        newThreats == IF isThreat(result) THEN prev.threats + 1 ELSE 0
        hnum == Max(0, 100 * newScanned - 100 * newThreats)
    IN  [scanned |-> newScanned, threats |-> newThreats,
         health |-> ToFixed1(hnum, newScanned)]

\* (mutant) the formula of the comment in addScanToHistory: 100 - (threats / scanned * 50)
record_HalfWeight(prev, result) ==
    LET newScanned == prev.scanned + 1
        newThreats == IF isThreat(result) THEN prev.threats + 1 ELSE prev.threats
        hnum == Max(0, 100 * newScanned - 50 * newThreats)
    IN  [scanned |-> newScanned, threats |-> newThreats,
         health |-> ToFixed1(hnum, newScanned)]

record(prev, result) ==
    LET newScanned == prev.scanned + 1
        newThreats == IF isThreat(result) THEN prev.threats + 1 ELSE prev.threats
        \* max(0, 100 - threats / scanned * 100) = hnum / newScanned
        hnum == Max(0, 100 * newScanned - 100 * newThreats)
    IN  [scanned |-> newScanned, threats |-> newThreats,
         health |-> ToFixed1(hnum, newScanned)]

\* (mutant) setScanHistory(prev => [...prev, result])
addScanToHistory_Appends(result) ==
    /\ scanHistory' = scanHistory \o <<result>>
    /\ stats' = record(stats, result)

\* lines 20-40: setScanHistory(prev => [result, ...prev]); setStats(prev => ...)
addScanToHistory(result) ==
    /\ scanHistory' = <<result>> \o scanHistory
    /\ stats' = record(stats, result)

----------------------------------------------------------------------------
(* Initial state: App shows the dashboard, the Scanner is not mounted *)

\* `last` tells which call or continuation of startScan led to the state, and how it
\* went; every other step leaves NoStep
NoStep == [op |-> "other", id |-> Null, outcome |-> "", mounted |-> FALSE]
Step(op, id, outcome, mounted) ==
    [op |-> op, id |-> id, outcome |-> outcome, mounted |-> mounted]

ScannerInit ==
    /\ queue = << >>
    /\ activeScanId = Null
    /\ emailNotifications = TRUE
    /\ scanOptions = DefaultOptions
    /\ toastMessage = NoToast
    /\ toastTimers = 0

Init ==
    /\ currentView = "DASHBOARD"
    /\ scanHistory = << >>
    /\ stats = [scanned |-> 0, threats |-> 0, health |-> 1000]
    /\ ScannerInit
    /\ scans = << >>
    /\ started = 0
    /\ submitted = 0
    /\ apiKey \in BOOLEAN
    /\ last = NoStep

----------------------------------------------------------------------------
(* App: the sidebar *)

\* The closures of an unmounted Scanner keep running, but setQueue, setActiveScanId
\* and setToastMessage of an unmounted component do nothing: the id, the notifications
\* flag and the interval's progress and eta are never read to any effect again, and
\* are dropped here.
Unmount(ss) ==
    [s \in DOMAIN ss |->
        [ss[s] EXCEPT !.mounted = FALSE, !.id = Null, !.email = FALSE,
                      !.currentProgress = 0, !.currentEta = 0, !.ticks = 0]]

\* Sidebar onClick -> setCurrentView(view); renderContent mounts Scanner only for SCANNER
setView(view) ==
    /\ view # currentView
    /\ currentView' = view
    /\ IF Mounted \/ view = "SCANNER"
       THEN /\ queue' = << >>
            /\ activeScanId' = Null
            /\ emailNotifications' = TRUE
            /\ scanOptions' = DefaultOptions
            /\ toastMessage' = NoToast
            /\ toastTimers' = 0
            /\ submitted' = 0
            /\ scans' = Unmount(scans)
       ELSE UNCHANGED <<scannerVars, scans, submitted>>
    /\ last' = NoStep
    /\ UNCHANGED <<scanHistory, stats, started, apiKey>>

----------------------------------------------------------------------------
(* Scanner: the handlers of the operator *)

\* the batches a file chooser or a drop may hand over, each file with the id drawn for it
Batches(n) == UNION { [1..m -> Ids \X Files] : m \in 0..n }

\* files: FileList | null
FileLists(n) ==
    {[null |-> TRUE, list |-> << >>]} \cup {[null |-> FALSE, list |-> b] : b \in Batches(n)}

\* lines 46-52: Array.from(files).map(file => ({ id, file, status: IDLE, progress: 0, eta: undefined }))
newItems(files) == [k \in DOMAIN files.list |-> NewItem(files.list[k][1], files.list[k][2])]

\* (mutant) setQueue(prev => [...prev, ...newItems]): the batch goes behind the queue
processFiles_Appends(files) ==
    /\ Mounted
    /\ queue' = IF files.null THEN queue ELSE queue \o newItems(files)
    /\ submitted' = submitted + Len(files.list)
    /\ last' = NoStep
    /\ UNCHANGED <<appVars, activeScanId, emailNotifications, scanOptions,
                   toastMessage, toastTimers, scans, started, apiKey>>

\* (mutant) setQueue(newItems): the batch replaces the queue
processFiles_Replaces(files) ==
    /\ Mounted
    /\ queue' = IF files.null THEN queue ELSE newItems(files)
    /\ submitted' = submitted + Len(files.list)
    /\ last' = NoStep
    /\ UNCHANGED <<appVars, activeScanId, emailNotifications, scanOptions,
                   toastMessage, toastTimers, scans, started, apiKey>>

\* processFiles(files): if (!files) return; setQueue(prev => [...newItems, ...prev])
processFiles(files) ==
    /\ Mounted
    /\ queue' = IF files.null THEN queue ELSE newItems(files) \o queue
    /\ submitted' = submitted + Len(files.list)
    /\ last' = NoStep
    /\ UNCHANGED <<appVars, activeScanId, emailNotifications, scanOptions,
                   toastMessage, toastTimers, scans, started, apiKey>>

\* onClick={() => setEmailNotifications(!emailNotifications)}
toggleEmailNotifications ==
    /\ Mounted
    /\ emailNotifications' = ~emailNotifications
    /\ last' = NoStep
    /\ UNCHANGED <<appVars, queue, activeScanId, scanOptions, toastMessage,
                   toastTimers, scans, started, submitted, apiKey>>

\* onClick={() => setScanOptions(s => ({ ...s, scanDepth: depth }))}
setScanDepth(depth) ==
    /\ Mounted
    /\ depth # scanOptions.scanDepth
    /\ scanOptions' = [scanOptions EXCEPT !.scanDepth = depth]
    /\ last' = NoStep
    /\ UNCHANGED <<appVars, queue, activeScanId, emailNotifications, toastMessage,
                   toastTimers, scans, started, submitted, apiKey>>

\* showNotification(msg): setToastMessage(msg); setTimeout(() => setToastMessage(null), 5000)
showNotification(msg) ==
    /\ toastMessage' = msg
    /\ toastTimers' = toastTimers + 1

\* a timer of showNotification fires
toastTimeout ==
    /\ Mounted
    /\ toastTimers > 0
    /\ toastMessage' = NoToast
    /\ toastTimers' = toastTimers - 1
    /\ last' = NoStep
    /\ UNCHANGED <<appVars, queue, activeScanId, emailNotifications, scanOptions,
                   scans, started, submitted, apiKey>>

\* the X of the toast: onClick={() => setToastMessage(null)}
dismissToast ==
    /\ Mounted
    /\ toastMessage # NoToast
    /\ toastMessage' = NoToast
    /\ last' = NoStep
    /\ UNCHANGED <<appVars, queue, activeScanId, emailNotifications, scanOptions,
                   toastTimers, scans, started, submitted, apiKey>>

----------------------------------------------------------------------------
(* Scanner: startScan, up to its first await *)

NewScan(id, item) ==
    [id |-> id, file |-> item.file, options |-> scanOptions, email |-> emailNotifications,
     pc |-> "preprocess", currentProgress |-> 0,
     currentEta |-> 2 * initialEta(item.file, scanOptions.scanDepth),  \* in half seconds
     ticks |-> 0, result |-> NoResult, query |-> Null, passed |-> NoOptions,
     mounted |-> TRUE]

startScan(id) ==
    IF startScanReturnsEarly(queue, id)
    THEN /\ last' = Step("startScan", id, "returned", TRUE)
         /\ UNCHANGED <<appVars, scannerVars, scans, started, submitted, apiKey>>
    ELSE LET item == queue[Find(queue, id)] IN
         /\ started < MaxScans
         /\ activeScanId' = id
         /\ queue' = updateItemStatus(queue, id, SCANNING, 0, NoResult,
                                      initialEta(item.file, scanOptions.scanDepth))
         /\ scans' = Append(scans, NewScan(id, item))
         /\ started' = started + 1
         /\ last' = Step("startScan", id, "started", TRUE)
         /\ UNCHANGED <<appVars, emailNotifications, scanOptions, toastMessage,
                        toastTimers, submitted, apiKey>>

\* the INITIATE button of the k-th item: rendered for an IDLE item, disabled while a scan is active
clickInitiate(k) ==
    /\ Mounted
    /\ k \in DOMAIN queue
    /\ queue[k].status = IDLE
    /\ activeScanId = Null
    /\ startScan(queue[k].id)

\* startScan called with any id, whatever the buttons allow
callStartScan(id) ==
    /\ Mounted
    /\ startScan(id)

----------------------------------------------------------------------------
(* Scanner: the interval and the continuations of startScan *)

\* (mutant) the step of the progress with the factor 20 in place of 0.05
nextProgress_Factor20(p) == p + (90 * Scale - p) * 20

\* line 92: currentProgress += (90 - currentProgress) * 0.05
nextProgress(p) == p + (90 * Scale - p) \div 20

\* (mutant) the eta is decreased without the floor of 2 seconds
nextEta_NoFloor(e) == e - 1

\* lines 95-96, in half seconds: currentEta -= 0.5; if (currentEta < 2) currentEta = 2
nextEta(e) == IF e - 1 < 2 * 2 THEN 2 * 2 ELSE e - 1

\* Math.ceil of a number of half seconds, in seconds
Ceil(e) == (e + 1) \div 2

\* setInterval callback, lines 90-108 (of a mounted Scanner: see Unmount)
tick(s) ==
    LET sc == scans[s]
        progress == nextProgress(sc.currentProgress)
        eta == nextEta(sc.currentEta)
    IN  /\ sc.mounted
        /\ sc.ticks < MaxTicks
        /\ scans' = [scans EXCEPT ![s] = [sc EXCEPT !.currentProgress = progress,
                                                    !.currentEta = eta,
                                                    !.ticks = sc.ticks + 1]]
        /\ queue' = setProgress(queue, sc.id, progress, Ceil(eta))
        /\ last' = NoStep
        /\ UNCHANGED <<appVars, activeScanId, emailNotifications, scanOptions,
                       toastMessage, toastTimers, started, submitted, apiKey>>

\* (mutant) the success notification decided by the switch as it is when the scan ends
notifyFlag_Current(sc) == emailNotifications

\* line 140: if (emailNotifications), emailNotifications of the closure of startScan
notifyFlag(sc) == sc.email

\* (mutant) the end of the try block without clearInterval(intervalId)
complete_KeepsInterval(s, q, result) ==
    LET sc == scans[s] IN
    /\ scans' = [scans EXCEPT ![s].pc = "done"]
    /\ addScanToHistory(result)
    /\ IF sc.mounted
       THEN /\ queue' = updateItemStatus(q, sc.id, COMPLETED, 100 * Scale, result, 0)
            /\ IF notifyFlag(sc)
               THEN showNotification([kind |-> "sent", name |-> sc.file.name])
               ELSE UNCHANGED <<toastMessage, toastTimers>>
            /\ activeScanId' = Null
       ELSE UNCHANGED <<queue, toastMessage, toastTimers, activeScanId>>

\* (mutant) the result is recorded by the Scanner only while it is mounted
complete_RecordsIfMounted(s, q, result) ==
    LET sc == scans[s] IN
    /\ scans' = RemoveAt(scans, s)
    /\ IF sc.mounted
       THEN /\ addScanToHistory(result)
            /\ queue' = updateItemStatus(q, sc.id, COMPLETED, 100 * Scale, result, 0)
            /\ IF notifyFlag(sc)
               THEN showNotification([kind |-> "sent", name |-> sc.file.name])
               ELSE UNCHANGED <<toastMessage, toastTimers>>
            /\ activeScanId' = Null
       ELSE UNCHANGED <<scanHistory, stats, queue, toastMessage, toastTimers, activeScanId>>

\* lines 136-142 and 149-151: the end of the try block, then finally
complete(s, q, result) ==
    LET sc == scans[s] IN
    /\ scans' = RemoveAt(scans, s)                      \* clearInterval(intervalId)
    /\ addScanToHistory(result)
    /\ IF sc.mounted
       THEN /\ queue' = updateItemStatus(q, sc.id, COMPLETED, 100 * Scale, result, 0)
            /\ IF notifyFlag(sc)
               THEN showNotification([kind |-> "sent", name |-> sc.file.name])
               ELSE UNCHANGED <<toastMessage, toastTimers>>
            /\ activeScanId' = Null
       ELSE UNCHANGED <<queue, toastMessage, toastTimers, activeScanId>>

\* (mutant) the catch block leaves the progress of the item where the interval put it
fail_KeepsProgress(s, q) ==
    LET sc == scans[s] IN
    /\ scans' = RemoveAt(scans, s)
    /\ IF sc.mounted
       THEN /\ queue' = updateItemStatus(q, sc.id, ERROR, sc.currentProgress, NoResult, 0)
            /\ showNotification([kind |-> "failed", name |-> sc.file.name])
            /\ activeScanId' = Null
       ELSE UNCHANGED <<queue, toastMessage, toastTimers, activeScanId>>
    /\ UNCHANGED <<scanHistory, stats>>

\* (mutant) setActiveScanId(null) at the end of the try block instead of in finally
fail_NoRelease(s, q) ==
    LET sc == scans[s] IN
    /\ scans' = RemoveAt(scans, s)
    /\ IF sc.mounted
       THEN /\ queue' = updateItemStatus(q, sc.id, ERROR, 0, NoResult, 0)
            /\ showNotification([kind |-> "failed", name |-> sc.file.name])
            /\ activeScanId' = activeScanId
       ELSE UNCHANGED <<queue, toastMessage, toastTimers, activeScanId>>
    /\ UNCHANGED <<scanHistory, stats>>

\* (mutant) the catch block clears the interval and notifies, but leaves the item
fail_LeavesItem(s, q) ==
    LET sc == scans[s] IN
    /\ scans' = RemoveAt(scans, s)
    /\ IF sc.mounted
       THEN /\ queue' = q
            /\ showNotification([kind |-> "failed", name |-> sc.file.name])
            /\ activeScanId' = Null
       ELSE UNCHANGED <<queue, toastMessage, toastTimers, activeScanId>>
    /\ UNCHANGED <<scanHistory, stats>>

\* lines 144-151: catch, then finally
fail(s, q) ==
    LET sc == scans[s] IN
    /\ scans' = RemoveAt(scans, s)                      \* clearInterval(intervalId)
    /\ IF sc.mounted
       THEN /\ queue' = updateItemStatus(q, sc.id, ERROR, 0, NoResult, 0)
            /\ showNotification([kind |-> "failed", name |-> sc.file.name])
            /\ activeScanId' = Null
       ELSE UNCHANGED <<queue, toastMessage, toastTimers, activeScanId>>
    /\ UNCHANGED <<scanHistory, stats>>

\* (mutant) analyzeFile is handed the options as they are when it is called
analyzeFileOptions_Current(sc) == scanOptions

\* line 121: analyzeFile(item.file, scanOptions), scanOptions of the closure of startScan
analyzeFileOptions(sc) == sc.options

\* lines 112-121: the 1000 ms timer fires, the item is marked ANALYZING and analyzeFile
\* is called; without an API key getAiClient throws before analyzeFile awaits anything
preprocessDone(s) ==
    LET sc == scans[s]
        q == IF sc.mounted THEN setAnalyzing(queue, sc.id) ELSE queue
    IN  /\ sc.pc = "preprocess"
        /\ IF apiKey
           THEN /\ scans' = [scans EXCEPT ![s].pc = "analyze",
                                          ![s].passed = analyzeFileOptions(sc)]
                /\ queue' = q
                /\ last' = Step("preprocessDone", sc.id, "analyzing", sc.mounted)
                /\ UNCHANGED <<scanHistory, stats, activeScanId, toastMessage, toastTimers>>
           ELSE /\ fail(s, q)
                /\ last' = Step("preprocessDone", sc.id, "rejected", sc.mounted)
        /\ UNCHANGED <<currentView, emailNotifications, scanOptions, started, submitted, apiKey>>

\* analyzeFile rejects: computeFileHash or readFileHead, which it awaits outside its try
analyzeRejects(s) ==
    LET sc == scans[s] IN
    /\ sc.pc = "analyze"
    /\ fail(s, queue)
    /\ last' = Step("analyze", sc.id, "rejected", sc.mounted)
    /\ UNCHANGED <<currentView, emailNotifications, scanOptions, started, submitted, apiKey>>

\* lines 121-138 once analyzeFile resolved with `result`
afterAnalyze(s, result, outcome) ==
    LET sc == scans[s] IN
    /\ sc.pc = "analyze"
    /\ IF result.threatLevel # SAFE
       THEN /\ scans' = [scans EXCEPT ![s] = [sc EXCEPT !.pc = "lookup",
                                                        !.currentProgress =
                                                            IF sc.mounted THEN 92 * Scale ELSE 0,
                                                        !.result = result,
                                                        !.query = searchQueries(result)]]
            /\ UNCHANGED <<scanHistory, stats, queue, activeScanId, toastMessage, toastTimers>>
       ELSE complete(s, queue, result)
    /\ last' = Step("analyze", sc.id, outcome, sc.mounted)
    /\ UNCHANGED <<currentView, emailNotifications, scanOptions, started, submitted, apiKey>>

\* analyzeFile resolves with the verdict of the model
analyzeResolves(s, v) ==
    afterAnalyze(s, analyzeFileReturn(scans[s].file, v), "verdict")

\* generateContent or JSON.parse throws inside analyzeFile: its catch block resolves
analyzeFails(s) ==
    afterAnalyze(s, analyzeFileCatch(scans[s].file), "caught")

\* the response text is empty: JSON.parse("{}") has neither threatLevel nor
\* vulnerabilities, so line 126 throws a TypeError inside startScan's try
analyzeResolvesEmpty(s) ==
    LET sc == scans[s] IN
    /\ sc.pc = "analyze"
    /\ fail(s, queue)
    /\ last' = Step("analyze", sc.id, "empty", sc.mounted)
    /\ UNCHANGED <<currentView, emailNotifications, scanOptions, started, submitted, apiKey>>

\* lines 130-138 once checkKnownVulnerabilities resolved with cveLinks
afterLookup(s, cveLinks, outcome) ==
    LET sc == scans[s] IN
    /\ sc.pc = "lookup"
    /\ complete(s, queue, attachLinks(sc.result, cveLinks))
    /\ last' = Step("lookup", sc.id, outcome, sc.mounted)
    /\ UNCHANGED <<currentView, emailNotifications, scanOptions, started, submitted, apiKey>>

lookupResolves(s, cveLinks) == afterLookup(s, cveLinks, "links")

\* (mutant) checkKnownVulnerabilities without its try: the rejection reaches the
\* catch block of startScan
lookupFails_Rejects(s) ==
    LET sc == scans[s] IN
    /\ sc.pc = "lookup"
    /\ fail(s, queue)
    /\ last' = Step("lookup", sc.id, "failed", sc.mounted)
    /\ UNCHANGED <<currentView, emailNotifications, scanOptions, started, submitted, apiKey>>

\* generateContent throws inside checkKnownVulnerabilities: its catch block returns []
lookupFails(s) == afterLookup(s, << >>, "failed")

----------------------------------------------------------------------------
(* Specifications *)

Operator ==
    \/ \E view \in Views : setView(view)
    \/ \E files \in FileLists(MaxQueue - Len(queue)) : processFiles(files)
    \/ \E k \in DOMAIN queue : clickInitiate(k)
    \/ dismissToast

Settings ==
    \/ toggleEmailNotifications
    \/ \E depth \in Depths : setScanDepth(depth)

Timers ==
    \/ toastTimeout
    \/ \E s \in DOMAIN scans : tick(s)
    \/ \E s \in DOMAIN scans : preprocessDone(s)

AnalyzeSettles ==
    \/ \E s \in DOMAIN scans : analyzeRejects(s)
    \/ \E s \in DOMAIN scans : \E v \in ProviderVerdicts : analyzeResolves(s, v)
    \/ \E s \in DOMAIN scans : analyzeFails(s)
    \/ \E s \in DOMAIN scans : analyzeResolvesEmpty(s)

LookupSettles ==
    \/ \E s \in DOMAIN scans : \E cveLinks \in LinkLists : lookupResolves(s, cveLinks)
    \/ \E s \in DOMAIN scans : lookupFails(s)

\* The page with the notifications switch and the advanced options left as they are
\* when the Scanner mounts.
Next ==
    \/ Operator
    \/ Timers
    \/ AnalyzeSettles
    \/ LookupSettles

Spec == Init /\ [][Next]_vars

\* Timers fire, and the two calls of the service settle.
SpecFair ==
    /\ Spec
    /\ WF_vars(\E s \in DOMAIN scans : preprocessDone(s))
    /\ WF_vars(AnalyzeSettles)
    /\ WF_vars(LookupSettles)

\* startScan as an operation of its own: the Scanner view, never left and its toast
\* left alone, with startScan called with any id in any state
NextCall ==
    \/ setView("SCANNER")
    \/ \E files \in FileLists(MaxQueue - Len(queue)) : processFiles(files)
    \/ \E id \in Ids \cup {UnknownId} : callStartScan(id)
    \/ \E s \in DOMAIN scans : tick(s)
    \/ \E s \in DOMAIN scans : preprocessDone(s)
    \/ AnalyzeSettles
    \/ LookupSettles

SpecCall == Init /\ [][NextCall]_vars

\* addScanToHistory as an operation of its own: any sequence of calls of it
RecordedResults ==
    { analyzeFileReturn([name |-> "a.txt", size |-> 2 * MiB], v) :
        v \in {w \in ProviderVerdicts : w.threatLevel # SAFE \/ w.cveMatches = NoMatches} }

callAddScanToHistory(result) ==
    /\ stats.scanned < MaxRecords
    /\ addScanToHistory(result)
    /\ last' = NoStep
    /\ UNCHANGED <<currentView, scannerVars, scans, started, submitted, apiKey>>

NextRecord == \E result \in RecordedResults : callAddScanToHistory(result)

SpecRecord == Init /\ [][NextRecord]_vars

\* A long session: n results, all safe, have been recorded (scanned = n, no threat,
\* health 100.0 at each of them), and results keep being recorded up to the first
\* that is not safe
SafeResult ==
    analyzeFileReturn([name |-> "a.txt", size |-> 2 * MiB],
                      CHOOSE v \in ProviderVerdicts :
                          v.threatLevel = SAFE /\ v.cveMatches = NoMatches)

InitManyRecords ==
    /\ \E n \in 0..MaxSafeRecords :
          /\ scanHistory = [i \in 1..n |-> SafeResult]
          /\ stats = [scanned |-> n, threats |-> 0, health |-> 1000]
    /\ currentView = "DASHBOARD"
    /\ ScannerInit
    /\ scans = << >>
    /\ started = 0
    /\ submitted = 0
    /\ apiKey = TRUE
    /\ last = NoStep

recordNext(result) ==
    /\ stats.scanned <= MaxSafeRecords
    /\ stats.threats = 0
    /\ addScanToHistory(result)
    /\ last' = NoStep
    /\ UNCHANGED <<currentView, scannerVars, scans, started, submitted, apiKey>>

NextManyRecords == \E result \in RecordedResults : recordNext(result)

SpecManyRecords == InitManyRecords /\ [][NextManyRecords]_vars

\* processFiles as the only operation of the mounted Scanner: any sequence of calls of it
NextEnqueue ==
    \/ setView("SCANNER")
    \/ \E files \in FileLists(MaxEnqueued - Len(queue)) : processFiles(files)

SpecEnqueue == Init /\ [][NextEnqueue]_vars

\* The Scanner view, never left and its toast left alone, with the scan depth of
\* the advanced options changed at any time
NextOptions ==
    \/ setView("SCANNER")
    \/ \E files \in FileLists(MaxQueue - Len(queue)) : processFiles(files)
    \/ \E depth \in Depths : setScanDepth(depth)
    \/ \E k \in DOMAIN queue : clickInitiate(k)
    \/ \E s \in DOMAIN scans : tick(s)
    \/ \E s \in DOMAIN scans : preprocessDone(s)
    \/ AnalyzeSettles
    \/ LookupSettles

SpecOptions == Init /\ [][NextOptions]_vars

\* The Scanner view, never left, with the notifications switch flipped at any time
\* and the toast left to its timers
NextNotify ==
    \/ setView("SCANNER")
    \/ \E files \in FileLists(MaxQueue - Len(queue)) : processFiles(files)
    \/ toggleEmailNotifications
    \/ toastTimeout
    \/ \E k \in DOMAIN queue : clickInitiate(k)
    \/ \E s \in DOMAIN scans : tick(s)
    \/ \E s \in DOMAIN scans : preprocessDone(s)
    \/ AnalyzeSettles
    \/ LookupSettles

SpecNotify == Init /\ [][NextNotify]_vars

\* A scan late in its course, where the eta has come down to its floor: the
\* Scanner was mounted, one file dropped, the depth chosen, INITIATE clicked, the
\* interval fired m - 1 times up to the verdict of analyzeFile, not safe, and once
\* more since. The progress of item and closure is then the one step from 92, and
\* can be followed exactly for the callbacks left up to MaxTicks.
RECURSIVE EtaAfter(_, _)
EtaAfter(e, m) == IF m = 0 THEN e ELSE EtaAfter(nextEta(e), m - 1)

LateScan(id, file, depth, m, v) ==
    LET result == analyzeFileReturn(file, v) IN
    [id |-> id, file |-> file, options |-> [scanDepth |-> depth], email |-> TRUE,
     pc |-> "lookup", currentProgress |-> nextProgress(92 * Scale),
     currentEta |-> EtaAfter(2 * initialEta(file, depth), m),
     ticks |-> MaxTicks - 1, result |-> result, query |-> searchQueries(result),
     passed |-> [scanDepth |-> depth], mounted |-> TRUE]

InitLate ==
    \E id \in Ids, file \in Files, depth \in Depths, m \in 1..MaxLateTicks,
       v \in {w \in ProviderVerdicts : w.threatLevel # SAFE} :
        LET sc == LateScan(id, file, depth, m, v) IN
        /\ currentView = "SCANNER"
        /\ scanHistory = << >>
        /\ stats = [scanned |-> 0, threats |-> 0, health |-> 1000]
        /\ queue = << [NewItem(id, file) EXCEPT !.status = ANALYZING,
                                                !.progress = sc.currentProgress,
                                                !.eta = Ceil(sc.currentEta)] >>
        /\ activeScanId = id
        /\ emailNotifications = TRUE
        /\ scanOptions = [scanDepth |-> depth]
        /\ toastMessage = NoToast
        /\ toastTimers = 0
        /\ scans = <<sc>>
        /\ started = 1
        /\ submitted = 1
        /\ apiKey = TRUE
        /\ last = NoStep

NextLate ==
    \/ \E s \in DOMAIN scans : tick(s)
    \/ LookupSettles

SpecLateTicks == InitLate /\ [][NextLate]_vars

\* The whole page
NextPage ==
    \/ Next
    \/ Settings

SpecPage == Init /\ [][NextPage]_vars

----------------------------------------------------------------------------
(* Items *)

Active(item) == item.status \in {SCANNING, ANALYZING}
Terminal(item) == item.status \in {COMPLETED, ERROR}
ItemsOf(id) == {k \in DOMAIN queue : queue[k].id = id}

\* the item of the next state that the k-th item of this state has become, when the
\* step dropped no item: processFiles puts its batch in front of the others
Shift == Len(queue') - Len(queue)
Kept == Shift >= 0

\* the step is a call of startScan with this id
IsStartScan(id) == last'.op = "startScan" /\ last'.id = id

\* the step is a continuation of startScan that ended the scan
IsEnd == last'.op \in {"preprocessDone", "analyze", "lookup"} /\ Len(scans') < Len(scans)

(* C1: in every reachable state at most one item of the queue has status scanning
   or analyzing. *)
C1_SingleActive ==
    Cardinality({k \in DOMAIN queue : Active(queue[k])}) <= 1

(* C2: startScan(id) called while a different item is active is refused: the queue,
   activeScanId and the statistics stay as they are, no interval is started and the
   service is not called. *)
C2_SecondScanRefused ==
    [][\A id \in Ids :
          (/\ IsStartScan(id)
           /\ activeScanId \notin {Null, id}
           /\ \E k \in DOMAIN queue : Active(queue[k]) /\ queue[k].id # id)
          => UNCHANGED <<queue, activeScanId, stats, scanHistory, scans>>]_vars

(* C3: every change of an item's status follows one of the edges idle->scanning,
   scanning->analyzing, analyzing->completed, scanning->error, analyzing->error. *)
C3_Edges ==
    { <<IDLE, SCANNING>>, <<SCANNING, ANALYZING>>, <<ANALYZING, COMPLETED>>,
      <<SCANNING, ERROR>>, <<ANALYZING, ERROR>> }

C3_StatusEdges ==
    [][Kept => \A k \in DOMAIN queue :
                  \/ queue'[k + Shift].status = queue[k].status
                  \/ <<queue[k].status, queue'[k + Shift].status>> \in C3_Edges]_vars

(* C4: once an item is completed or in error, no step changes its status, progress,
   eta or result. *)
C4_TerminalStays ==
    [][Kept => \A k \in DOMAIN queue :
                  Terminal(queue[k]) =>
                      /\ queue'[k + Shift].status = queue[k].status
                      /\ queue'[k + Shift].progress = queue[k].progress
                      /\ queue'[k + Shift].eta = queue[k].eta
                      /\ queue'[k + Shift].result = queue[k].result]_vars

(* C5: startScan(id) changes nothing when no item has the id, or when the item
   found for the id (the first with it) has status scanning. *)
C5_NoItemOrScanning(id) ==
    \/ ItemsOf(id) = {}
    \/ \E k \in ItemsOf(id) : (\A j \in ItemsOf(id) : k <= j) /\ queue[k].status = SCANNING

C5_StartScanNoOp ==
    [][\A id \in Ids \cup {UnknownId} :
          (IsStartScan(id) /\ C5_NoItemOrScanning(id))
          => UNCHANGED <<appVars, scannerVars, scans, started>>]_vars

C5_Witness ==
    /\ last.op = "startScan"
    /\ last.outcome = "returned"
    /\ \E k \in ItemsOf(last.id) : queue[k].status = SCANNING

(* C6: when analyzeFile rejects, the item ends in error with progress 0, eta 0 and
   no result, its interval is cleared, and the statistics stay as they are. *)
C6_RejectEndsInError ==
    [][(last'.op \in {"preprocessDone", "analyze"} /\ last'.outcome = "rejected")
       => /\ stats' = stats
          /\ scanHistory' = scanHistory
          /\ Len(scans') = Len(scans) - 1
          /\ last'.mounted =>
                /\ ItemsOf(last'.id) # {}
                /\ \A k \in DOMAIN queue' :
                      queue'[k].id = last'.id =>
                          /\ queue'[k].status = ERROR
                          /\ queue'[k].progress = 0
                          /\ queue'[k].eta = 0
                          /\ queue'[k].result = NoResult
                /\ \A s \in DOMAIN scans' :
                      ~(scans'[s].mounted /\ scans'[s].id = last'.id)]_vars

C6_Witness ==
    /\ last.op = "analyze"
    /\ last.outcome = "rejected"
    /\ last.mounted
    /\ \E k \in ItemsOf(last.id) : queue[k].status = ERROR /\ queue[k].progress = 0
    /\ stats.scanned = 0

(* C7: an analysis that failed never ends in a completed item and is never recorded
   in the statistics or the history. *)
C7_FailedAnalysisIsError ==
    /\ \A k \in DOMAIN queue :
          queue[k].status = COMPLETED => queue[k].result.summary # FailedSummary
    /\ \A h \in DOMAIN scanHistory : scanHistory[h].summary # FailedSummary

(* C8: when analyzeFile gave a verdict that is not safe and the lookup fails, the
   item ends completed with that verdict attached, without cveMatches, and the
   verdict is recorded in the statistics. *)
C8_Original ==
    [][\A s \in DOMAIN scans :
          (last'.op = "lookup" /\ last'.outcome = "failed" /\ last'.mounted
              /\ scans[s].mounted /\ scans[s].pc = "lookup")
          => /\ stats'.scanned = stats.scanned + 1
             /\ \A k \in DOMAIN queue' :
                   queue'[k].id = last'.id =>
                       /\ queue'[k].status = COMPLETED
                       /\ queue'[k].result.threatLevel = scans[s].result.threatLevel
                       /\ queue'[k].result.summary = scans[s].result.summary
                       /\ queue'[k].result.vulnerabilities = scans[s].result.vulnerabilities
                       /\ ~queue'[k].result.cveMatches.present]_vars

(* C8, amended: when analyzeFile gave a verdict that is not safe and the lookup
   fails, the item ends completed (progress 100, eta 0) with the verdict attached
   exactly as analyzeFile returned it, so with the cveMatches of analyzeFile if it
   returned any and none added, and the verdict is recorded in the statistics and
   the history. *)
C8_LookupFailureCompletes ==
    [][\A s \in DOMAIN scans :
          (last'.op = "lookup" /\ last'.outcome = "failed" /\ last'.mounted
              /\ scans[s].mounted /\ scans[s].pc = "lookup")
          => /\ stats'.scanned = stats.scanned + 1
             /\ scanHistory' = <<scans[s].result>> \o scanHistory
             /\ ItemsOf(last'.id) # {}
             /\ \A k \in DOMAIN queue' :
                   queue'[k].id = last'.id =>
                       /\ queue'[k].status = COMPLETED
                       /\ queue'[k].progress = 100 * Scale
                       /\ queue'[k].eta = 0
                       /\ queue'[k].result = scans[s].result]_vars

C8_Witness ==
    /\ last.op = "lookup"
    /\ last.outcome = "failed"
    /\ last.mounted
    /\ \E k \in ItemsOf(last.id) :
          /\ queue[k].status = COMPLETED
          /\ queue[k].result.threatLevel # SAFE
          /\ scanHistory # << >>
          /\ scanHistory[1] = queue[k].result

(* C9: whatever the outcome, the end of a scan sets activeScanId to null, and a
   startScan called with activeScanId null is not turned away. *)
C9_SlotReleased ==
    [][/\ (IsEnd /\ last'.mounted) => activeScanId' = Null
       /\ (last'.op = "startScan" /\ activeScanId = Null) => last'.outcome = "started"]_vars

C9_Witness ==
    /\ last.op = "startScan"
    /\ last.outcome = "started"
    /\ \E k \in DOMAIN queue : Terminal(queue[k])
    /\ \E k \in DOMAIN queue : queue[k].id = last.id /\ queue[k].status = SCANNING

(* C10: every item that entered scanning eventually reaches completed or error. *)
C10_Original ==
    \A id \in Ids :
        (\E k \in ItemsOf(id) : Active(queue[k])) ~> (\E k \in ItemsOf(id) : Terminal(queue[k]))

(* C10, amended: every item that entered scanning eventually reaches completed or
   error, unless the Scanner is unmounted first. *)
C10_EventuallyTerminal ==
    \A id \in Ids :
        (\E k \in ItemsOf(id) : Active(queue[k]))
            ~> ((\E k \in ItemsOf(id) : Terminal(queue[k])) \/ ~Mounted)

C10_Witness ==
    /\ last.op \in {"preprocessDone", "analyze", "lookup"}
    /\ last.mounted
    /\ \E k \in ItemsOf(last.id) : Terminal(queue[k])

(* C11: scanned grows by one for each item that becomes completed and by nothing
   else: in every step the growth of scanned is the number of items that the step
   moved to completed. *)
C11_ScannedCountsCompleted ==
    [][Kept => stats'.scanned - stats.scanned =
                  Cardinality({k \in DOMAIN queue :
                                  /\ queue[k].status # COMPLETED
                                  /\ queue'[k + Shift].status = COMPLETED})]_vars

(* C12: no step makes scanned or threats smaller, a call of record included. *)
C12_CountersMonotonic ==
    [][/\ stats'.scanned >= stats.scanned
       /\ stats'.threats >= stats.threats]_vars

C12_Witness ==
    /\ stats.scanned = 2
    /\ stats.threats = 1
    /\ scanHistory[1].threatLevel = SAFE
    /\ currentView = "DASHBOARD"

(* C13: health is 100 before any call of record, and after every call it is
   max(0, 100 - 100 * threats / scanned) rounded to one decimal place, of the
   updated counters; scanned = 10 and threats = 3 give 70.0. Health is in tenths:
   it is the one closest to the exact value, the upper one of two equally close. *)
C13_Health ==
    LET s == stats.scanned
        t == stats.threats
        h == stats.health
    IN  /\ s = 0 => h = 1000
        /\ s > 0 => /\ h >= 0
                    /\ 2 * (h * s - 1000 * (s - t)) <= s
                    /\ 2 * (1000 * (s - t) - h * s) < s
        /\ (s = 10 /\ t = 3) => h = 700

C13_Witness ==
    /\ stats.scanned = 3
    /\ stats.threats = 1
    /\ stats.health = 667

(* C14: threats is the number of recorded results whose threatLevel is not safe:
   a call of record adds 1 for a suspicious, malicious or unknown result and 0
   for a safe one. *)
C14_ThreatsCountNotSafe ==
    /\ stats.scanned = Len(scanHistory)
    /\ stats.threats =
          Cardinality({h \in DOMAIN scanHistory :
                          scanHistory[h].threatLevel \in {SUSPICIOUS, MALICIOUS, UNKNOWN}})
    /\ \A h \in DOMAIN scanHistory :
          scanHistory[h].threatLevel \in {SAFE, SUSPICIOUS, MALICIOUS, UNKNOWN}

C14_Witness ==
    /\ Len(scanHistory) = 2
    /\ stats.threats = 1
    /\ \E h \in DOMAIN scanHistory : scanHistory[h].threatLevel = UNKNOWN
    /\ \E h \in DOMAIN scanHistory : scanHistory[h].threatLevel = SAFE

(* C15: the result attached to a completed item has no cveMatches when its
   threatLevel is safe, whatever analyzeFile returned. *)
C15_SafeHasNoMatches ==
    \A k \in DOMAIN queue :
        (queue[k].status = COMPLETED /\ queue[k].result.threatLevel = SAFE)
            => ~queue[k].result.cveMatches.present

(* C16: the result attached to a completed item never has an empty cveMatches:
   cveMatches is absent or holds at least one link. *)
C16_NoEmptyMatches ==
    \A k \in DOMAIN queue :
        (queue[k].status = COMPLETED /\ queue[k].result.cveMatches.present)
            => Len(queue[k].result.cveMatches.links) > 0

(* C17: checkKnownVulnerabilities is called exactly when analyzeFile resolved with a
   result whose threatLevel is not safe, and never for a safe one (which completes
   the scan at once); its query is the first vulnerability when there is one, and
   the file name followed by " vulnerabilities" otherwise. *)
C17_LookupWhenNotSafe ==
    [][/\ \A s \in DOMAIN scans' :
              scans'[s].pc = "lookup" =>
                  /\ scans'[s].result.threatLevel # SAFE
                  /\ scans'[s].query =
                        IF Len(scans'[s].result.vulnerabilities) > 0
                        THEN scans'[s].result.vulnerabilities[1]
                        ELSE scans'[s].file.name \o " vulnerabilities"
       /\ (last'.op = "analyze" /\ last'.outcome \in {"verdict", "caught"}) =>
              \/ /\ Len(scans') = Len(scans)
                 /\ scanHistory' = scanHistory
                 /\ \E s \in DOMAIN scans :
                       /\ scans[s].pc = "analyze"
                       /\ scans'[s].pc = "lookup"
                       /\ scans'[s].result.threatLevel # SAFE
              \/ /\ Len(scans') = Len(scans) - 1
                 /\ Len(scanHistory') = Len(scanHistory) + 1
                 /\ scanHistory'[1].threatLevel = SAFE
                 /\ \A s \in DOMAIN scans' : scans'[s].pc = "lookup" =>
                        \E u \in DOMAIN scans : scans[u] = scans'[s]
       /\ (/\ Len(scans') = Len(scans)
           /\ \E s \in DOMAIN scans : scans[s].pc # "lookup" /\ scans'[s].pc = "lookup")
              => (last'.op = "analyze" /\ last'.outcome \in {"verdict", "caught"})]_vars

C17_Witness ==
    \E s, u \in DOMAIN scans :
        /\ scans[s].pc = "lookup"
        /\ scans[s].query = "v1"
        /\ scans[u].pc = "lookup"
        /\ scans[u].query = scans[u].file.name \o " vulnerabilities"

(* C18: in every reachable state every item has a result if and only if its
   status is completed. *)
C18_ResultIffCompleted ==
    \A k \in DOMAIN queue :
        (queue[k].result # NoResult) <=> (queue[k].status = COMPLETED)

C18_Witness ==
    /\ \E k \in DOMAIN queue : queue[k].status = COMPLETED /\ queue[k].result # NoResult
    /\ \E k \in DOMAIN queue : queue[k].status = ERROR /\ queue[k].result = NoResult

(* C19: the interval is cleared when the item is finalized: on success every item
   of the scan gets progress 100, eta 0 and the result; after the end of a scan,
   on the success or the failure path, no interval of it is left, and no callback
   of an interval changes the progress or the eta of a completed or failed item. *)
C19_Success ==
    /\ last'.op \in {"analyze", "lookup"}
    /\ scanHistory' # scanHistory

C19_Failure ==
    /\ last'.op \in {"preprocessDone", "analyze", "lookup"}
    /\ last'.outcome \in {"rejected", "empty"}

C19_IsTick ==
    /\ Len(scans') = Len(scans)
    /\ \E s \in DOMAIN scans : scans'[s].ticks = scans[s].ticks + 1

C19_SimulatorCancelled ==
    [][/\ (C19_Success /\ last'.mounted) =>
              /\ ItemsOf(last'.id) # {}
              /\ \A k \in DOMAIN queue' :
                    queue'[k].id = last'.id =>
                        /\ queue'[k].status = COMPLETED
                        /\ queue'[k].progress = 100 * Scale
                        /\ queue'[k].eta = 0
                        /\ queue'[k].result = scanHistory'[1]
       /\ ((C19_Success \/ C19_Failure) /\ last'.mounted) =>
              \A s \in DOMAIN scans' : ~(scans'[s].mounted /\ scans'[s].id = last'.id)
       /\ C19_IsTick =>
              \A k \in DOMAIN queue :
                  Terminal(queue[k]) =>
                      /\ queue'[k].progress = queue[k].progress
                      /\ queue'[k].eta = queue[k].eta]_vars

C19_Witness ==
    /\ \E k \in DOMAIN queue :
          /\ queue[k].status = COMPLETED
          /\ queue[k].progress = 100 * Scale
          /\ queue[k].eta = 0
    /\ \E s \in DOMAIN scans : scans[s].mounted /\ scans[s].ticks > 0

(* C20: after any sequence of calls of processFiles and nothing else, the queue
   holds as many items as files were handed over, each with status idle,
   progress 0, eta undefined and no result. *)
C20_EnqueueOnly ==
    /\ Len(queue) = submitted
    /\ \A k \in DOMAIN queue :
          /\ queue[k].status = IDLE
          /\ queue[k].progress = 0
          /\ queue[k].eta = EtaUndefined
          /\ queue[k].result = NoResult

C20_Witness ==
    /\ submitted = 3
    /\ Len(queue) = 3
    /\ queue[1].file # queue[3].file

(* C21: processFiles puts the new items at the front of the queue in the order of
   the batch, each idle with progress 0 and no eta or result, and leaves the items
   already queued, their order and their fields as they are; an empty or null
   batch leaves the queue as it is. *)
C21_EnqueueAtFront ==
    [][\A files \in FileLists(MaxQueue - Len(queue)) :
          processFiles(files) =>
              LET n == Len(files.list) IN
              /\ Len(queue') = Len(queue) + n
              /\ \A k \in 1..n :
                    /\ queue'[k].id = files.list[k][1]
                    /\ queue'[k].file = files.list[k][2]
                    /\ queue'[k].status = IDLE
                    /\ queue'[k].progress = 0
                    /\ queue'[k].eta = EtaUndefined
                    /\ queue'[k].result = NoResult
              /\ \A k \in DOMAIN queue : queue'[k + n] = queue[k]
              /\ (files.null \/ n = 0) => queue' = queue]_vars

C21_Witness ==
    /\ Len(queue) = 2
    /\ submitted = 2
    /\ queue[1].status = IDLE
    /\ queue[1].id # queue[2].id
    /\ queue[2].status = ANALYZING
    /\ queue[2].progress > 0

(* C22: processFiles may come at any point of an active scan: no step drops or
   replaces an item of the queue, processFiles leaves every item already queued as
   it is, and an idle item stays idle, with progress 0 and no eta, until startScan
   is called with its id. *)
C22_EnqueueDuringScan ==
    [][Kept =>
          /\ \A k \in DOMAIN queue :
                /\ queue'[k + Shift].id = queue[k].id
                /\ queue'[k + Shift].file = queue[k].file
          /\ Shift > 0 => \A k \in DOMAIN queue : queue'[k + Shift] = queue[k]
          /\ \A k \in DOMAIN queue :
                (queue[k].status = IDLE /\ queue'[k + Shift] # queue[k])
                    => IsStartScan(queue[k].id)]_vars

(* C23: an update of the queue by id changes one item, the one with the id, and
   leaves every other item as it is: no step of a scan changes more than one
   item of the queue. *)
C23_UpdatesOneItem ==
    [][(Kept /\ Shift = 0) =>
          Cardinality({k \in DOMAIN queue : queue'[k] # queue[k]}) <= 1]_vars

(* C24: the ids of the items of the queue are pairwise different, and no step
   changes the id of an item. *)
C24_UniqueIds ==
    \A j, k \in DOMAIN queue : j # k => queue[j].id # queue[k].id

(* C25: the eta of an item that enters scanning is 5 for depth quick, 15 for
   balanced and 45 for deep, doubled if and only if the size of its file is
   greater than 2 MiB; a file of 3 MiB at depth deep gets 90. *)
C25_Base == [quick |-> 5, balanced |-> 15, deep |-> 45]

C25_InitialEta ==
    [][(last'.op = "startScan" /\ last'.outcome = "started") =>
          \A k \in DOMAIN queue' :
              queue'[k].id = last'.id =>
                  /\ queue'[k].status = SCANNING
                  /\ queue'[k].eta =
                        IF queue'[k].file.size > 2 * 1024 * 1024
                        THEN 2 * C25_Base[scanOptions.scanDepth]
                        ELSE C25_Base[scanOptions.scanDepth]
                  /\ (queue'[k].file.size = 3 * MiB /\ scanOptions.scanDepth = "deep")
                        => queue'[k].eta = 90]_vars

(* C30: the options are read when startScan is called: a change of the options
   during a scan changes neither the queue (so not the eta of the active item)
   nor the options of the scan, which are the ones handed to analyzeFile; a scan
   started afterwards has the changed options. *)
C30_OptionsReadAtStart ==
    [][/\ scanOptions' # scanOptions => (queue' = queue /\ scans' = scans)
       /\ (last'.op = "startScan" /\ last'.outcome = "started") =>
              /\ Len(scans') = Len(scans) + 1
              /\ scans'[Len(scans')].options = scanOptions
              /\ scans'[Len(scans')].passed = NoOptions
       /\ Len(scans') = Len(scans) =>
              \A s \in DOMAIN scans :
                  /\ scans'[s].options = scans[s].options
                  /\ scans'[s].passed \in {scans[s].passed, scans[s].options}
                  /\ scans[s].passed # NoOptions => scans'[s].passed = scans[s].passed
                  /\ (scans[s].pc = "preprocess" /\ scans'[s].pc = "analyze")
                        => scans'[s].passed = scans[s].options]_vars

C30_Witness ==
    /\ \E s \in DOMAIN scans :
          /\ scans[s].passed # NoOptions
          /\ scans[s].passed.scanDepth = "deep"
          /\ scanOptions.scanDepth = "quick"
    /\ \E k \in DOMAIN queue : queue[k].status = COMPLETED /\ queue[k].result.fileName = "a.txt"
    /\ \E k \in DOMAIN queue : queue[k].status = ANALYZING /\ queue[k].eta > 45

(* C26: while an item is scanning or analyzing its progress stays below 90,
   for any number of callbacks of the interval and any verdict. *)
C26_ProgressBelow90 ==
    \A k \in DOMAIN queue : Active(queue[k]) => queue[k].progress < 90 * Scale

(* C27: no callback of the interval lowers the progress of an item that is
   scanning or analyzing. *)
C27_ProgressNeverLowered ==
    [][C19_IsTick =>
          \A k \in DOMAIN queue :
              Active(queue[k]) => queue'[k].progress >= queue[k].progress]_vars

(* C28: each callback of the interval takes half a second off the eta of the scan
   and keeps it at 2 or more: the eta of an item that is scanning or analyzing,
   the eta of the scan rounded up, never grows and is never below 2, and the end
   of the scan sets it to 0. *)
C28_EtaDecaysToFloor ==
    [][/\ C19_IsTick =>
              \A s \in DOMAIN scans :
                  scans'[s].ticks # scans[s].ticks =>
                      /\ 2 * 2 <= scans'[s].currentEta
                      /\ scans'[s].currentEta <= scans[s].currentEta
                      /\ scans'[s].currentEta \in {scans[s].currentEta - 1, 2 * 2}
                      /\ \A k \in DOMAIN queue' :
                            queue'[k].id = scans[s].id =>
                                /\ 2 * queue'[k].eta >= scans'[s].currentEta
                                /\ 2 * queue'[k].eta < scans'[s].currentEta + 2
       /\ Kept =>
              \A k \in DOMAIN queue :
                  /\ (Active(queue[k]) /\ Active(queue'[k + Shift])
                         /\ queue[k].eta # EtaUndefined)
                        => (queue'[k + Shift].eta <= queue[k].eta /\ queue'[k + Shift].eta >= 2)
                  /\ (Active(queue[k]) /\ Terminal(queue'[k + Shift]))
                        => queue'[k + Shift].eta = 0]_vars

C28_Witness ==
    /\ \E s \in DOMAIN scans :
          /\ scans[s].ticks = MaxTicks
          /\ scans[s].currentEta = 2 * 2
          /\ scans[s].options.scanDepth = "quick"
    /\ \E k \in DOMAIN queue : Active(queue[k]) /\ queue[k].eta = 2

(* C29: in every reachable state the progress of every item is at least 0 and at
   most 100, and its eta, when it has one, is not negative. *)
C29_ProgressAndEtaInRange ==
    \A k \in DOMAIN queue :
        /\ 0 <= queue[k].progress
        /\ queue[k].progress <= 100 * Scale
        /\ queue[k].eta # EtaUndefined => queue[k].eta >= 0

C29_Witness ==
    /\ \E k \in DOMAIN queue : queue[k].status = COMPLETED /\ queue[k].progress = 100 * Scale
    /\ \E k \in DOMAIN queue :
          /\ queue[k].status = ANALYZING
          /\ queue[k].progress > 90 * Scale
          /\ queue[k].eta > 0

(* C31: nothing moves an item on by itself: an idle item leaves idle only in a
   call of startScan with its id, and the end of a scan, completed or failed,
   changes the status of no item but the one scanned. *)
C31_NoAutomaticProgression ==
    [][Kept =>
          /\ \A k \in DOMAIN queue :
                (queue[k].status = IDLE /\ queue'[k + Shift].status # IDLE)
                    => IsStartScan(queue[k].id)
          /\ (C19_Success \/ C19_Failure) =>
                Cardinality({k \in DOMAIN queue :
                                queue'[k + Shift].status # queue[k].status}) <= 1]_vars

(* C33: a notification stays on display for the 5 seconds of its own timer unless
   the operator dismisses it: a timer that fires clears the toast on display only
   when it is the timer of that toast, the last one set, so that no other timer
   is left pending. *)
C33_ToastTimeout ==
    /\ currentView' = currentView
    /\ toastTimers' = toastTimers - 1

C33_ToastKeepsItsFiveSeconds ==
    [][(C33_ToastTimeout /\ toastMessage # NoToast) => toastTimers' = 0]_vars

(* C34: the step from scanning to analyzing changes the status of the item of the
   scan and nothing else: its progress, eta and result stay, and every other item
   stays as it is. *)
C34_AnalyzingChangesStatusOnly ==
    [][(last'.op = "preprocessDone" /\ last'.outcome = "analyzing" /\ last'.mounted) =>
          /\ Len(queue') = Len(queue)
          /\ \A k \in DOMAIN queue :
                /\ queue'[k].progress = queue[k].progress
                /\ queue'[k].eta = queue[k].eta
                /\ queue'[k].result = queue[k].result
                /\ queue'[k].id = queue[k].id
                /\ queue'[k].file = queue[k].file
                /\ queue'[k].status # queue[k].status =>
                      (queue[k].status = SCANNING /\ queue'[k].status = ANALYZING)
          /\ Cardinality({k \in DOMAIN queue : queue'[k] # queue[k]}) = 1]_vars

(* C35: in every reachable state activeScanId is not null exactly when some item
   is scanning or analyzing, and it is then the id of every such item. *)
C35_ActiveScanIdIsActiveItem ==
    /\ (activeScanId # Null) <=> (\E k \in DOMAIN queue : Active(queue[k]))
    /\ \A k \in DOMAIN queue : Active(queue[k]) => queue[k].id = activeScanId

C35_Witness ==
    /\ activeScanId # Null
    /\ \E k \in DOMAIN queue : queue[k].status = ANALYZING /\ queue[k].id = activeScanId
    /\ \E k \in DOMAIN queue : queue[k].status = ERROR /\ queue[k].id # activeScanId

(* C36: a callback of the interval changes the progress and the eta of the item of
   its scan and nothing else: no status, no result, and no field of another item. *)
C36_TickChangesOneItem ==
    [][C19_IsTick =>
          /\ Len(queue') = Len(queue)
          /\ \A k \in DOMAIN queue :
                /\ queue'[k].status = queue[k].status
                /\ queue'[k].result = queue[k].result
                /\ queue'[k].id = queue[k].id
                /\ queue'[k].file = queue[k].file
          /\ Cardinality({k \in DOMAIN queue : queue'[k] # queue[k]}) <= 1]_vars


\* the step is the end of a scan of the mounted Scanner, and it showed the toast msg
C32_Emitted(kind) ==
    /\ toastTimers' = toastTimers + 1
    /\ toastMessage'.kind = kind
    /\ \E s \in DOMAIN scans :
          scans[s].mounted /\ scans[s].id = last'.id /\ toastMessage'.name = scans[s].file.name

\* C32: when a scan of the mounted Scanner succeeds, a notification naming its file is
\* emitted exactly if the notifications switch is on at that moment; when it fails, a
\* failure notification naming its file is emitted, whatever the switch
C32_NotifiedIffEnabled ==
    [][/\ (C19_Success /\ last'.mounted) => (C32_Emitted("sent") <=> emailNotifications)
       /\ (C19_Failure /\ last'.mounted) => C32_Emitted("failed")]_vars

\* C39: whether the success of a scan of the mounted Scanner emits a notification is
\* decided by the notifications switch as it was when startScan was called, however
\* the switch was flipped since
C39_FlagOfStartScan ==
    [][(C19_Success /\ last'.mounted) =>
          \A s \in DOMAIN scans :
              (scans[s].mounted /\ scans[s].id = last'.id)
                  => (C32_Emitted("sent") <=> scans[s].email)]_vars

\* a scan started with the switch on has succeeded with the switch off, and notified
C39_Witness ==
    /\ last.op \in {"analyze", "lookup"} /\ last.mounted
    /\ last.outcome \notin {"rejected", "empty"}
    /\ ~emailNotifications
    /\ toastMessage.kind = "sent"
    /\ started = 1
    /\ Len(scanHistory) = 1


\* C37 as stated: threats between 0 and scanned, health between 0 and 100, and health
\* 100 exactly when there is no threat
C37_Original ==
    /\ 0 <= stats.threats /\ stats.threats <= stats.scanned
    /\ 0 <= stats.health /\ stats.health <= 1000
    /\ (stats.health = 1000) <=> (stats.threats = 0)

\* C37: threats between 0 and scanned, health between 0 and 100; health is 100 when
\* there is no threat and when less than one result in 2000 is a threat, where the
\* rounding to one decimal gives 100.0, and below 100 when more than one in 2000 is
C37_HealthOfThreatRatio ==
    /\ 0 <= stats.threats /\ stats.threats <= stats.scanned
    /\ 0 <= stats.health /\ stats.health <= 1000
    /\ (stats.threats = 0) => (stats.health = 1000)
    /\ (2000 * stats.threats < stats.scanned) => (stats.health = 1000)
    /\ (2000 * stats.threats > stats.scanned) => (stats.health < 1000)

\* 2000 safe results, then a threat: 100 - 1 / 2001 * 100 = 99.950025 is shown as 100.0
C37_Witness == stats = [scanned |-> 2001, threats |-> 1, health |-> 1000]


\* C38: the scan history has as many entries as stats.scanned says, before and after
\* every step; the history and the stats change only together, in the step in which a
\* scan succeeds: scanned goes up by one and the result of that scan is put in front
\* of the history, the earlier entries staying behind it in their order
C38_HistoryIsScannedNewestFirst ==
    [][/\ Len(scanHistory) = stats.scanned
       /\ Len(scanHistory') = stats'.scanned
       /\ (scanHistory' # scanHistory \/ stats' # stats) =>
             /\ last'.op \in {"analyze", "lookup"}
             /\ last'.outcome \notin {"rejected", "empty"}
             /\ stats'.scanned = stats.scanned + 1
             /\ scanHistory' # << >>
             /\ Tail(scanHistory') = scanHistory
             /\ last'.mounted =>
                   \E k \in DOMAIN queue' :
                       /\ queue'[k].id = last'.id
                       /\ queue'[k].result = Head(scanHistory')]_vars

\* two scans have succeeded with different results, the later one in front
C38_Witness ==
    /\ last.op \in {"analyze", "lookup"} /\ last.mounted
    /\ scans = << >>
    /\ stats.scanned = 2
    /\ Len(scanHistory) = 2
    /\ scanHistory[1] # scanHistory[2]
    /\ \E k \in DOMAIN queue :
          /\ queue[k].id = last.id
          /\ queue[k].status = COMPLETED
          /\ queue[k].result = scanHistory[1]
          /\ queue[k].result # scanHistory[2]


\* C40: a scan whose Scanner was unmounted goes on without touching the Scanner
\* that is shown; the step in which it ends with a result records that result, one
\* more scanned and the result in front of the history, and is its last; no other
\* step of it records anything. Switching the view leaves an empty queue.
C40_UnmountedScanRecordsOnce ==
    [][/\ (currentView' # currentView) => (queue' = << >>)
       /\ (last'.op \in {"preprocessDone", "analyze", "lookup"} /\ ~last'.mounted) =>
             /\ UNCHANGED scannerVars
             /\ IF Len(scans') < Len(scans) /\ last'.outcome \notin {"rejected", "empty"}
                THEN /\ stats'.scanned = stats.scanned + 1
                     /\ Len(scanHistory') = Len(scanHistory) + 1
                     /\ Tail(scanHistory') = scanHistory
                     /\ Len(scans') = Len(scans) - 1
                ELSE UNCHANGED <<scanHistory, stats>>]_vars

\* the operator left during the only scan and came back: the scan has ended since,
\* its result is recorded once, and the queue shown is empty
C40_Witness ==
    /\ last.op \in {"analyze", "lookup"} /\ ~last.mounted
    /\ started = 1
    /\ scans = << >>
    /\ currentView = "SCANNER"
    /\ queue = << >>
    /\ Len(scanHistory) = 1
    /\ stats.scanned = 1

====
